---- MODULE Spec2Model ----
(***************************************************************************)
(* Model of the Router and Route components of yew_router                  *)
(* (src/YewRouter/src/component_router/router.rs).                         *)
(*                                                                         *)
(* The Router stores the current route, its Route children and a bridge    *)
(* to the RouteAgent.  update() handles Msg::UpdateRoute, change() handles *)
(* a replacement of the properties and view() picks the first child whose  *)
(* path matches the stored route and whose render function yields a view.  *)
(***************************************************************************)
EXTENDS Naturals, Sequences, FiniteSets

VARIABLES
    route,          \* Router.route: the stored RouteInfo
    props,          \* Router.props.children: the Route children, in order
    router_agent,   \* Router.router_agent: the bridge to the RouteAgent
    agent_requests, \* the RouteRequests sent over the bridge, in order
    rendered,       \* what the last view() read and returned, None before it
    calls,          \* the children whose matcher the last call ran, in call order
    notes,          \* the last two messages update() handled, oldest first
    last,           \* the last call and its return value
    bridge_events,  \* the bridges opened to and dropped from the RouteAgent
    pending,        \* a call has returned ShouldRender = true since the last view()
    replaced,       \* change() has stored different children since the last view()
    route_props,    \* Route.props of a Route component, None when there is none
    route_last      \* the last call on the Route component and its return value

vars == <<route, props, router_agent, agent_requests, rendered, calls, notes, last,
          bridge_events, pending, replaced, route_props, route_last>>

\* Largest number of Route children given to a Router.
MaxChildren == 2

----------------------------------------------------------------------------
\* Option<T> and Result<T, E> values.
None == [some |-> FALSE]
Some(v) == [some |-> TRUE, value |-> v]
Err == [ok |-> FALSE, kind |-> "Error"]
\* An Err that is an error of the matcher rather than a plain non-match.
Incomplete == [ok |-> FALSE, kind |-> "Incomplete"]
Ok(v) == [ok |-> TRUE, value |-> v]

\* RouteInfo values: the path segments of a location.  DefaultRoute is
\* RouteInfo::default().
DefaultRoute == <<>>
RouteInfos == { DefaultRoute, <<"a">>, <<"z">>, <<"x", "42">> }

\* Path patterns held by a PathMatcher: a sequence of tokens.
Lit(s) == [kind |-> "lit", text |-> s]
Capture(n) == [kind |-> "cap", text |-> n]
Any == [kind |-> "any", text |-> ""]

\* PathMatcher::match_path: Ok((rest, captures)) when the pattern matches the
\* route, Err otherwise: Incomplete when the route ends before the pattern
\* does.  Captures are a set of <<name, value>> pairs.
RECURSIVE match_path(_, _)
match_path(path, r) ==
    IF path = <<>>
    THEN IF r = <<>> THEN Ok(<<r, {}>>) ELSE Err
    ELSE IF Head(path).kind = "any"
    THEN Ok(<<(<<>>), {}>>)
    ELSE IF r = <<>>
    THEN Incomplete
    ELSE IF Head(path).kind = "lit"
    THEN IF Head(r) = Head(path).text
         THEN match_path(Tail(path), Tail(r))
         ELSE Err
    ELSE LET m == match_path(Tail(path), Tail(r))
         IN  IF m.ok
             THEN Ok(<<m.value[1], m.value[2] \cup {<<Head(path).text, Head(r)>>}>>)
             ELSE m

\* PathMatcher::render_fn: a closure from the captures to Option<Html>.
\* The closure "Nothing" declines to render; any other closure builds a view
\* that carries its own name and the captures it was given.
render_fn(f, hm) ==
    IF f = "Nothing" THEN None ELSE Some([tag |-> f, hm |-> hm])

\* The Route children an application declares (RouteProps.path).
Routes ==
    { [path |-> <<Lit("a")>>, render_fn |-> "A"],
      [path |-> <<Any>>, render_fn |-> "B"],
      [path |-> <<Lit("x"), Capture("id")>>, render_fn |-> "X"],
      [path |-> <<Any>>, render_fn |-> "Nothing"] }

\* ChildrenWithProps<Route, Router>: ordered collections of Route children.
ChildrenWithProps ==
    UNION { [1..n -> Routes] : n \in 0..MaxChildren }

\* html! { <></> }
EmptyHtml == [tag |-> "<></>", hm |-> {}]

----------------------------------------------------------------------------
\* flatten_stable that loses the inner value.
flatten_stable_none(self) ==
    None

\* flatten_stable that turns a declined render into an empty view.
flatten_stable_keep(self) ==
    IF ~self.some
    THEN None
    ELSE IF self.value.some THEN self.value ELSE Some(EmptyHtml)

\* Option<Option<T>>::flatten_stable
flatten_stable(self) ==
    IF ~self.some THEN None ELSE self.value

\* Result::ok
ok(self) ==
    IF self.ok THEN Some(self.value) ELSE None

\* The closure with a render function that is not given the captures.
route_possibility_html_no_captures(route_possibility, r) ==
    LET m == match_path(route_possibility.path, r)
        mapped == IF m.ok
                  THEN Ok(render_fn(route_possibility.render_fn, {}))
                  ELSE Err
    IN  flatten_stable(ok(mapped))

\* The closure given to filter_map in view(): match the child's path on the
\* stored route, render with the captures, drop an Err and flatten.
route_possibility_html(route_possibility, r) ==
    LET m == match_path(route_possibility.path, r)
        mapped == IF m.ok
                  THEN Ok(render_fn(route_possibility.render_fn, m.value[2]))
                  ELSE Err
    IN  flatten_stable(ok(mapped))

\* filter_map that gives up the scan when a matcher reports an error other
\* than a plain non-match.
RECURSIVE filter_map_abort(_, _)
filter_map_abort(children, r) ==
    IF children = <<>>
    THEN <<>>
    ELSE LET m == match_path(Head(children).path, r)
             x == route_possibility_html(Head(children), r)
         IN  IF ~m.ok /\ m.kind # "Error"
             THEN <<>>
             ELSE IF x.some
             THEN <<x.value>> \o filter_map_abort(Tail(children), r)
             ELSE filter_map_abort(Tail(children), r)

\* Iterator::filter_map over the children, in order.
RECURSIVE filter_map(_, _)
filter_map(children, r) ==
    IF children = <<>>
    THEN <<>>
    ELSE LET x == route_possibility_html(Head(children), r)
         IN  IF x.some
             THEN <<x.value>> \o filter_map(Tail(children), r)
             ELSE filter_map(Tail(children), r)

\* The closure calls of a scan that evaluates every child before the first
\* item is taken.
RECURSIVE filter_map_calls_eager(_, _, _)
filter_map_calls_eager(children, r, i) ==
    IF children = <<>>
    THEN <<>>
    ELSE <<i>> \o filter_map_calls_eager(Tail(children), r, i + 1)

\* The children on which the filter_map closure is called while next() pulls
\* the first item out of the lazy iterator, in call order: each call runs
\* match_path and, if the match is Ok, render_fn of that child.  Child i is
\* the i-th child of the Router, children the ones not yet scanned; the scan
\* goes on only while the closure returns None.
RECURSIVE filter_map_calls(_, _, _)
filter_map_calls(children, r, i) ==
    IF children = <<>>
    THEN <<>>
    ELSE IF route_possibility_html(Head(children), r).some
    THEN <<i>>
    ELSE <<i>> \o filter_map_calls(Tail(children), r, i + 1)

\* next that yields the last item of the iterator instead of the first.
next_last(iter) ==
    IF iter = <<>> THEN None ELSE Some(iter[Len(iter)])

\* Iterator::next on the filtered iterator.
next(iter) ==
    IF iter = <<>> THEN None ELSE Some(Head(iter))

\* unwrap_or_else whose closure does not write the warning.
unwrap_or_else_silent(x) ==
    IF x.some
    THEN [html |-> x.value, log |-> <<>>]
    ELSE [html |-> EmptyHtml, log |-> <<>>]

\* Option::unwrap_or_else with the warn! closure of view().
unwrap_or_else(x) ==
    IF x.some
    THEN [html |-> x.value, log |-> <<>>]
    ELSE [html |-> EmptyHtml, log |-> <<"warn: Routing failed">>]

\* Router::view as a function of the stored state: the Html and the log
\* lines written during the call.
view_of(children, r) ==
    LET first == next(filter_map(children, r))
        matched == IF first.some THEN <<"trace: Route matched">> ELSE <<>>
        res == unwrap_or_else(first)
    IN  [html |-> res.html,
         log |-> <<"trace: Routing one of">> \o matched \o res.log]

----------------------------------------------------------------------------
\* create that starts from a route other than the default.
create_with_route(p) ==
    /\ route = <<"a">>
    /\ props = p
    /\ router_agent = "bridge"
    /\ bridge_events = <<"bridge">>
    /\ agent_requests = <<"GetCurrentRoute">>
    /\ pending = FALSE
    /\ replaced = FALSE
    /\ rendered = None
    /\ calls = <<>>
    /\ notes = <<>>
    /\ last = [op |-> "create", repeat |-> FALSE]

\* Router::create
create(p) ==
    /\ route = DefaultRoute
    /\ props = p
    /\ router_agent = "bridge"
    /\ bridge_events = <<"bridge">>
    /\ agent_requests = <<"GetCurrentRoute">>
    /\ pending = FALSE
    /\ replaced = FALSE
    /\ rendered = None
    /\ calls = <<>>
    /\ notes = <<>>
    /\ last = [op |-> "create", repeat |-> FALSE]

\* No Route component has been created.
NoRoute ==
    /\ route_props = None
    /\ route_last = [op |-> "none", ret |-> FALSE]

Init == NoRoute /\ \E p \in ChildrenWithProps : create(p)

\* The last two notifications handled, oldest first.
Remember(n) ==
    IF Len(notes) < 2 THEN Append(notes, n) ELSE <<notes[2], n>>

\* update that compares after it has stored the new route.
update_compare_after(msg) ==
    LET did_change == msg # msg
    IN  /\ route' = msg
        /\ notes' = Remember([route |-> msg, before |-> route, ret |-> did_change])
        /\ calls' = <<>>
        /\ last' = [op |-> "update", repeat |-> ~did_change, ret |-> did_change]
        /\ pending' = (pending \/ did_change)
        /\ UNCHANGED <<props, router_agent, agent_requests, rendered, bridge_events,
                       replaced>>

\* update that stores the new route only in the notification, not in self.
update_no_store(msg) ==
    LET did_change == route # msg
    IN  /\ route' = route
        /\ notes' = Remember([route |-> msg, before |-> route, ret |-> did_change])
        /\ calls' = <<>>
        /\ last' = [op |-> "update", repeat |-> ~did_change, ret |-> did_change]
        /\ pending' = (pending \/ did_change)
        /\ UNCHANGED <<props, router_agent, agent_requests, rendered, bridge_events,
                       replaced>>

\* update that always asks for a render.
update_always_render(msg) ==
    LET did_change == TRUE
    IN  /\ route' = msg
        /\ notes' = Remember([route |-> msg, before |-> route, ret |-> did_change])
        /\ calls' = <<>>
        /\ last' = [op |-> "update", repeat |-> (route = msg), ret |-> did_change]
        /\ pending' = (pending \/ did_change)
        /\ UNCHANGED <<props, router_agent, agent_requests, rendered, bridge_events,
                       replaced>>

\* update that asks the agent for the current route again.
update_request_again(msg) ==
    LET did_change == route # msg
    IN  /\ route' = msg
        /\ agent_requests' = Append(agent_requests, "GetCurrentRoute")
        /\ notes' = Remember([route |-> msg, before |-> route, ret |-> did_change])
        /\ calls' = <<>>
        /\ last' = [op |-> "update", repeat |-> ~did_change, ret |-> did_change]
        /\ pending' = (pending \/ did_change)
        /\ UNCHANGED <<props, router_agent, rendered, bridge_events,
                       replaced>>

\* update that opens a new bridge to the agent.
update_bridge_again(msg) ==
    LET did_change == route # msg
    IN  /\ route' = msg
        /\ bridge_events' = Append(bridge_events, "bridge")
        /\ notes' = Remember([route |-> msg, before |-> route, ret |-> did_change])
        /\ calls' = <<>>
        /\ last' = [op |-> "update", repeat |-> ~did_change, ret |-> did_change]
        /\ pending' = (pending \/ did_change)
        /\ UNCHANGED <<props, router_agent, agent_requests, rendered, replaced>>

\* Router::update with Msg::UpdateRoute(msg)
update(msg) ==
    LET did_change == route # msg
    IN  /\ route' = msg
        /\ notes' = Remember([route |-> msg, before |-> route, ret |-> did_change])
        /\ calls' = <<>>
        /\ last' = [op |-> "update", repeat |-> ~did_change, ret |-> did_change]
        /\ pending' = (pending \/ did_change)
        /\ UNCHANGED <<props, router_agent, agent_requests, rendered, bridge_events,
                       replaced>>

\* change that asks for a render only when the children differ.
change_if_differs(p) ==
    /\ props' = p
    /\ calls' = <<>>
    /\ last' = [op |-> "change", repeat |-> (p = props), ret |-> (p # props),
                arg |-> p]
    /\ pending' = (pending \/ (p # props))
    /\ replaced' = (replaced \/ (p # props))
    /\ UNCHANGED <<route, router_agent, agent_requests, rendered, notes,
                   bridge_events>>

\* change that stores the children without asking for a render.
change_no_render(p) ==
    /\ props' = p
    /\ calls' = <<>>
    /\ last' = [op |-> "change", repeat |-> (p = props), ret |-> FALSE,
                arg |-> p]
    /\ replaced' = (replaced \/ (p # props))
    /\ UNCHANGED <<route, router_agent, agent_requests, rendered, notes,
                   bridge_events, pending>>

\* change that goes back to the default route.
change_reset_route(p) ==
    /\ props' = p
    /\ route' = DefaultRoute
    /\ calls' = <<>>
    /\ last' = [op |-> "change", repeat |-> (p = props), ret |-> TRUE,
                arg |-> p]
    /\ pending' = TRUE
    /\ replaced' = (replaced \/ (p # props))
    /\ UNCHANGED <<router_agent, agent_requests, rendered, notes,
                   bridge_events>>

\* Router::change
change(p) ==
    /\ props' = p
    /\ calls' = <<>>
    /\ last' = [op |-> "change", repeat |-> (p = props), ret |-> TRUE,
                arg |-> p]
    /\ pending' = TRUE
    /\ replaced' = (replaced \/ (p # props))
    /\ UNCHANGED <<route, router_agent, agent_requests, rendered, notes,
                   bridge_events>>

\* view that consumes the child it scanned first.
view_consuming ==
    /\ rendered' = Some([route |-> route,
                         html |-> view_of(props, route).html,
                         log |-> view_of(props, route).log])
    /\ calls' = filter_map_calls(props, route, 1)
    /\ props' = IF props = <<>> THEN props ELSE Tail(props)
    /\ last' = [op |-> "view", repeat |-> (last.op = "view")]
    /\ pending' = FALSE
    /\ replaced' = FALSE
    /\ UNCHANGED <<route, router_agent, agent_requests, notes, bridge_events>>

\* Router::view
view ==
    /\ rendered' = Some([route |-> route,
                         html |-> view_of(props, route).html,
                         log |-> view_of(props, route).log])
    /\ calls' = filter_map_calls(props, route, 1)
    /\ last' = [op |-> "view", repeat |-> (last.op = "view")]
    /\ pending' = FALSE
    /\ replaced' = FALSE
    /\ UNCHANGED <<route, props, router_agent, agent_requests, notes,
                   bridge_events>>

\* Dropping the Router drops the bridge it owns.
destroy ==
    /\ router_agent' = "dropped"
    /\ bridge_events' = Append(bridge_events, "drop")
    /\ calls' = <<>>
    /\ last' = [op |-> "destroy", repeat |-> FALSE]
    /\ UNCHANGED <<route, props, agent_requests, rendered, notes, pending,
                   replaced>>

\* The framework calls a component only while it is alive.
Alive == router_agent = "bridge"

\* No call is made on a Route component.
RouteIdle == UNCHANGED <<route_props, route_last>>

Next ==
    \/ \E msg \in RouteInfos : Alive /\ RouteIdle /\ update(msg)
    \/ \E p \in ChildrenWithProps : Alive /\ RouteIdle /\ change(p)
    \/ Alive /\ RouteIdle /\ view
    \/ Alive /\ RouteIdle /\ destroy

Spec == Init /\ [][Next]_vars

----------------------------------------------------------------------------
\* The Route component.

\* The patterns and render functions a PathMatcher can hold.
Paths == { <<Lit("a")>>, <<Any>>, <<Lit("x"), Capture("id")>> }
RenderFns == { "A", "B", "X", "Nothing" }

\* RouteProps values.
RoutePropsValues == [path : Paths, render_fn : RenderFns]

\* Route::create
Route_create(rp) ==
    /\ route_props = Some(rp)
    /\ route_last = [op |-> "create", ret |-> FALSE]

\* Route::update, with the message ()
Route_update ==
    /\ route_last' = [op |-> "update", ret |-> FALSE, before |-> route_props]
    /\ UNCHANGED route_props

\* Route::change that asks for a render only when the properties differ.
Route_change_if_differs(rp) ==
    /\ route_props' = Some(rp)
    /\ route_last' = [op |-> "change", ret |-> (Some(rp) # route_props),
                      before |-> route_props, arg |-> rp]

\* Route::change
Route_change(rp) ==
    /\ route_props' = Some(rp)
    /\ route_last' = [op |-> "change", ret |-> TRUE, before |-> route_props,
                      arg |-> rp]

\* No call is made on the Router.
RouterIdle ==
    UNCHANGED <<route, props, router_agent, agent_requests, rendered, calls,
                notes, last, bridge_events, pending, replaced>>

\* A Route component next to a Router without children.
RouteInit ==
    /\ create(<<>>)
    /\ \E rp \in RoutePropsValues : Route_create(rp)

RouteNext ==
    \/ RouterIdle /\ Route_update
    \/ \E rp \in RoutePropsValues : RouterIdle /\ Route_change(rp)

SpecRoute == RouteInit /\ [][RouteNext]_vars

----------------------------------------------------------------------------
\* Vocabulary of the properties.

\* The last operation was view(): rendered describes the stored state.
JustViewed == last.op = "view"

\* Indices of the children whose matcher succeeds on the stored route.
MatchingIdx == { i \in DOMAIN props : match_path(props[i].path, route).ok }

\* What child i's render function returns for its own captures.
OutputOf(i) ==
    render_fn(props[i].render_fn, match_path(props[i].path, route).value[2])

\* Indices of the children that match and whose render function yields a view.
YieldingIdx == { i \in MatchingIdx : OutputOf(i).some }

Least(S) == CHOOSE i \in S : \A j \in S : i <= j

\* Number of warn-level lines in a log.
Warns(log) == Cardinality({ i \in DOMAIN log : log[i] = "warn: Routing failed" })

----------------------------------------------------------------------------
\* C1 (as stated): after view(), the Html is the output of the first child,
\* in declaration order, whose matcher succeeds on the stored route.
C1_FirstMatchWins ==
    (JustViewed /\ MatchingIdx # {}) =>
        Some(rendered.value.html) = OutputOf(Least(MatchingIdx))

\* C1 (amended): after view(), the Html is the output of the first child, in
\* declaration order, whose matcher succeeds on the stored route and whose
\* render function yields a view; never the output of a later such child.
C1_FirstYieldingWins ==
    (JustViewed /\ YieldingIdx # {}) =>
        rendered.value.html = OutputOf(Least(YieldingIdx)).value

\* Two children yield different views for the stored route and view() ran.
C1_Witness ==
    /\ JustViewed
    /\ \E i, j \in YieldingIdx : i < j /\ OutputOf(i) # OutputOf(j)

\* C2: update() returns true exactly when the delivered route differs from
\* the route stored immediately before the call.
C2_SignalIffDiffers ==
    [][last'.op = "update" => (last'.ret <=> route' # route)]_vars

\* A notification that delivered the stored route followed one that did not.
C2_Witness ==
    /\ last.op = "update"
    /\ ~last.ret
    /\ Len(notes) = 2
    /\ notes[1].ret

\* C3: when there are no children, or no child's matcher succeeds on the
\* stored route, view() returns the empty Html and warns exactly once.
C3_NoMatchFallsBack ==
    (JustViewed /\ (props = <<>> \/ MatchingIdx = {})) =>
        /\ rendered.value.html = EmptyHtml
        /\ Warns(rendered.value.log) = 1

\* view() ran over a non-empty collection none of whose children matches.
C3_Witness ==
    /\ JustViewed
    /\ props # <<>>
    /\ MatchingIdx = {}

\* C4: once a notification has been handled, the stored route is the route
\* delivered by the most recent one.
C4_StoredIsLastDelivered ==
    notes # <<>> => route = notes[Len(notes)].route

\* The most recent notification did not signal, the one before it did, and
\* other operations have run since.
C4_Witness ==
    /\ Len(notes) = 2
    /\ notes[1].ret
    /\ ~notes[2].ret
    /\ last.op = "view"

\* C5 (as stated): when some child's matcher succeeds on the stored route,
\* view() returns the output of a matching child, not the empty Html, and
\* does not warn.
C5_MatchAvoidsFallback ==
    (JustViewed /\ MatchingIdx # {}) =>
        /\ \E i \in MatchingIdx : Some(rendered.value.html) = OutputOf(i)
        /\ rendered.value.html # EmptyHtml
        /\ Warns(rendered.value.log) = 0

\* C5 (amended): when some child's matcher succeeds on the stored route and
\* its render function yields a view, view() returns the output of such a
\* child, not the empty Html, and does not warn.
C5_YieldingMatchAvoidsFallback ==
    (JustViewed /\ YieldingIdx # {}) =>
        /\ \E i \in YieldingIdx : rendered.value.html = OutputOf(i).value
        /\ rendered.value.html # EmptyHtml
        /\ Warns(rendered.value.log) = 0

\* view() ran with a catch-all child placed last being the only match.
C5_Witness ==
    /\ JustViewed
    /\ Len(props) = 2
    /\ props[2].path = <<Any>>
    /\ YieldingIdx = {2}
    /\ MatchingIdx = {2}

\* C6 (as stated): when two consecutive notifications deliver the same
\* route, the first returns true and the second returns false.
C6_ExactlyOneSignal ==
    (Len(notes) = 2 /\ notes[1].route = notes[2].route) =>
        (notes[1].ret /\ ~notes[2].ret)

\* C6 (amended): when two consecutive notifications deliver the same route,
\* the second returns false, and the first returns true exactly when its
\* route differs from the route stored before it.
C6_SecondNeverSignals ==
    (Len(notes) = 2 /\ notes[1].route = notes[2].route) =>
        /\ ~notes[2].ret
        /\ notes[1].ret <=> (notes[1].route # notes[1].before)

\* Two consecutive notifications delivered the same route, new to the Router.
C6_Witness ==
    /\ Len(notes) = 2
    /\ notes[1].route = notes[2].route
    /\ notes[1].route # notes[1].before

\* C7: change() stores the children it is given and returns true, also when
\* they equal the stored ones.
C7_ChangeAlwaysRenders ==
    last.op = "change" => (props = last.arg /\ last.ret)

\* change() was given children equal to the stored ones.
C7_Witness ==
    /\ last.op = "change"
    /\ last.repeat
    /\ props # <<>>

\* C8: view() leaves the route, the children and the bridge as they are, and
\* a view() that directly follows a view() produces the same Html and log.
C8_ViewReadOnly ==
    [][last'.op = "view" =>
          /\ route' = route
          /\ props' = props
          /\ router_agent' = router_agent
          /\ (last.op = "view" => rendered' = rendered)]_vars

\* view() ran twice in a row and rendered a child.
C8_Witness ==
    /\ JustViewed
    /\ last.repeat
    /\ rendered.value.html # EmptyHtml

\* C9: the agent has received exactly one GetCurrentRoute request, the one
\* sent by create().
C9_OneRequest ==
    agent_requests = <<"GetCurrentRoute">>

\* Notifications, a view and a change of children have all been handled.
C9_Witness ==
    /\ Len(notes) = 2
    /\ rendered.some
    /\ last.op = "change"

\* C10: until the first notification is handled the stored route is the
\* default one, and every view() so far rendered the default route.
C10_DefaultUntilNotified ==
    notes = <<>> =>
        /\ route = DefaultRoute
        /\ rendered.some => rendered.value.route = DefaultRoute

\* view() rendered a child before any notification was handled.
C10_Witness ==
    /\ notes = <<>>
    /\ rendered.some
    /\ rendered.value.html # EmptyHtml

\* C11: one bridge is opened, by create(); it is held as it is by every
\* update(), change() and view(), and dropped once, when the Router is.
C11_OneBridge ==
    /\ bridge_events =
           IF last.op = "destroy" THEN <<"bridge", "drop">> ELSE <<"bridge">>
    /\ router_agent = IF last.op = "destroy" THEN "dropped" ELSE "bridge"

\* The Router was dropped after it handled notifications and rendered.
C11_Witness ==
    /\ last.op = "destroy"
    /\ notes # <<>>
    /\ rendered.some

\* C12: view() evaluates the children in declaration order, one call of the
\* closure (matcher, then render function) for every child up to the winner,
\* and none for a child that comes after the winner.
C12_ScanStopsAtWinner ==
    JustViewed =>
        LET n == IF YieldingIdx = {} THEN Len(props) ELSE Least(YieldingIdx)
        IN  /\ Len(calls) = n
            /\ \A k \in DOMAIN calls : calls[k] = k

\* view() picked a winner and a child after the winner would match too.
C12_Witness ==
    /\ JustViewed
    /\ YieldingIdx # {}
    /\ \E j \in MatchingIdx : j > Least(YieldingIdx)

\* Indices of the children whose matcher fails on the stored route with an
\* error that is not a plain non-match.
ErroringIdx ==
    { i \in DOMAIN props :
        LET m == match_path(props[i].path, route)
        IN  ~m.ok /\ m.kind # "Error" }

\* C13: a matcher error does not stop the scan: the children after the
\* failing one are still called, the first child that matches and yields a
\* view wins, and without one view() warns and returns the empty Html.
C13_ErrorIsNonMatch ==
    (JustViewed /\ ErroringIdx # {}) =>
        /\ \A i \in ErroringIdx, j \in DOMAIN props :
               (i < j /\ (YieldingIdx = {} \/ j <= Least(YieldingIdx))) =>
                   \E k \in DOMAIN calls :
                       calls[k] = j
        /\ IF YieldingIdx # {}
           THEN /\ rendered.value.html = OutputOf(Least(YieldingIdx)).value
                /\ Warns(rendered.value.log) = 0
           ELSE /\ rendered.value.html = EmptyHtml
                /\ Warns(rendered.value.log) = 1

\* view() ran, a matcher failed with an error and a later child won.
C13_Witness ==
    /\ JustViewed
    /\ YieldingIdx # {}
    /\ \E i \in ErroringIdx : i < Least(YieldingIdx)

\* C14: the view returned by view() was built by the winner's render function
\* from the captures that the winner's matcher produces for the stored route;
\* the pattern /x/{id} on the route /x/42 passes {id: 42}.
C14_WinnerGetsOwnCaptures ==
    (JustViewed /\ YieldingIdx # {}) =>
        LET w == Least(YieldingIdx)
        IN  /\ rendered.value.html.tag = props[w].render_fn
            /\ rendered.value.html.hm = match_path(props[w].path, route).value[2]
            /\ (props[w].path = <<Lit("x"), Capture("id")>>
                   /\ route = <<"x", "42">>) =>
                   rendered.value.html.hm = {<<"id", "42">>}

\* view() ran on the route /x/42 and the child with pattern /x/{id} won,
\* after an earlier view() of another route.
C14_Witness ==
    /\ JustViewed
    /\ route = <<"x", "42">>
    /\ Len(notes) = 2
    /\ YieldingIdx # {}
    /\ props[Least(YieldingIdx)].path = <<Lit("x"), Capture("id")>>

\* C15 (as stated): once a view() has run, update() returns true exactly when
\* the delivered route differs from the route that the last view() rendered.
C15_SignalIffDiffersFromRendered ==
    [][(last'.op = "update" /\ rendered.some) =>
          (last'.ret <=> route' # rendered.value.route)]_vars

\* C15 (amended): update() returns true exactly when the delivered route
\* differs from the stored route; that is the route the last view() rendered
\* whenever no notification has changed the stored route since that view().
C15_SignalIffDiffersFromStored ==
    last.op = "update" =>
        LET n == notes[Len(notes)]
        IN  /\ n.ret <=> (n.route # n.before)
            /\ (rendered.some /\ rendered.value.route = n.before) =>
                   (n.ret <=> (n.route # rendered.value.route))

\* update() returned true for a route that differs from the rendered one.
C15_Witness ==
    /\ last.op = "update"
    /\ rendered.some
    /\ rendered.value.route = notes[Len(notes)].before
    /\ notes[Len(notes)].ret

\* Indices of the children that match the stored route but whose render
\* function returns None.
DecliningIdx == MatchingIdx \ YieldingIdx

\* C16: a child that matches but whose render function returns None does not
\* win: the children after it are still called, the first child that matches
\* and yields a view wins, and without one view() warns and returns the
\* empty Html.
C16_DecliningChildSkipped ==
    (JustViewed /\ DecliningIdx # {}) =>
        /\ \A i \in DecliningIdx, j \in DOMAIN props :
               (i < j /\ (YieldingIdx = {} \/ j <= Least(YieldingIdx))) =>
                   \E k \in DOMAIN calls :
                       calls[k] = j
        /\ \A i \in DecliningIdx :
               rendered.value.html.tag # props[i].render_fn
        /\ IF YieldingIdx # {}
           THEN /\ rendered.value.html = OutputOf(Least(YieldingIdx)).value
                /\ Warns(rendered.value.log) = 0
           ELSE /\ rendered.value.html = EmptyHtml
                /\ Warns(rendered.value.log) = 1

\* view() ran, a matching child declined to render and a later child won.
C16_Witness ==
    /\ JustViewed
    /\ YieldingIdx # {}
    /\ \E i \in DecliningIdx : i < Least(YieldingIdx)

\* C17: when the stored route differs from the one the last view() rendered,
\* or change() has stored different children since that view(), a call has
\* returned ShouldRender = true since that view().
C17_NoStaleView ==
    (rendered.some /\ (route # rendered.value.route \/ replaced)) => pending

\* The stored route differs from the rendered one although the last
\* notification returned false.
C17_Witness ==
    /\ rendered.some
    /\ route # rendered.value.route
    /\ last.op = "update"
    /\ ~last.ret

\* C18: update() leaves the children as they are and change() leaves the
\* route as it is, so the stored route is the one of the last notification
\* (the default before the first) whatever changes of children came between.
C18_HandlersIndependent ==
    /\ [][/\ last'.op = "update" => props' = props
          /\ last'.op = "change" => (route' = route /\ props' = last'.arg)]_vars
    /\ [](route = IF notes = <<>> THEN DefaultRoute
                   ELSE notes[Len(notes)].route)

\* Different children were stored after a notification changed the route.
C18_Witness ==
    /\ last.op = "change"
    /\ ~last.repeat
    /\ notes # <<>>
    /\ route # DefaultRoute

\* C19: Route::update returns false and leaves the properties as they are;
\* Route::change stores the properties it is given and returns true.
C19_RouteRendersOnChangeOnly ==
    /\ route_last.op = "update" =>
           (~route_last.ret /\ route_props = route_last.before)
    /\ route_last.op = "change" =>
           (route_last.ret /\ route_props = Some(route_last.arg))

\* Route::change was given properties equal to the stored ones.
C19_Witness ==
    /\ route_last.op = "change"
    /\ route_last.before = Some(route_last.arg)
====
